---- MODULE Spec2Model ----
(***************************************************************************)
(* The APU of Fearless-NES (nes/src/apu.rs) as a state machine.            *)
(*                                                                         *)
(* State: the Apu struct (cycle counter, sample divider, the channels and  *)
(* the frame counter) and the CPU's irq_signal, which the APU's register   *)
(* handlers clear.  Operations: Nes::apu_tick, Nes::apu_write_reg and      *)
(* Nes::apu_read_status.  Observation variables record what the last       *)
(* operation did (which unit clocks it called, what it returned).          *)
(***************************************************************************)
EXTENDS Integers, Sequences, FiniteSets, TLC

VARIABLES
    apu,          \* struct Apu (apu.rs:8-21), without the two float tables
    irq_signal,   \* cpu.irq_signal, the interrupt line shared with the CPU
    panicked,     \* an arithmetic overflow aborted the program (overflow checks on)
    op,           \* observation: the last operation, [name, addr, val]
    before,       \* observation: the Apu when the last operation was called
    irq_before,   \* observation: irq_signal when the last operation was called
    calls,        \* observation: the unit clocks the last operation called, in order
    result,       \* observation: the byte the last apu_read_status returned
    sample,       \* observation: the table indices of the last mixer call
    seq,          \* observation: the counter value the last tick matched on
    timers,       \* observation: did the last tick clock the pulse timers
    now,          \* observation: ticks since power-on
    nticks,       \* ticks taken in this behaviour
    nwrites,      \* register writes made in this behaviour
    nreads        \* status reads made in this behaviour

vars == <<apu, irq_signal, panicked, op, before, irq_before, calls, result, sample, seq,
          timers, now, nticks, nwrites, nreads>>

----------------------------------------------------------------------------
(* Bit fields of a register value.                                         *)

\* bit k of v:  v & (1 << k) != 0
Bit(v, k) == (v \div (2 ^ k)) % 2 = 1

\* the n-bit field of v that starts at bit lo:  (v >> lo) & (2^n - 1)
Bits(v, lo, n) == (v \div (2 ^ lo)) % (2 ^ n)

\* u16 arithmetic of a build without overflow checks
U16(x) == x % 65536

----------------------------------------------------------------------------
(* Tables.                                                                 *)

SAMPLE_FREQ == 40

DUTY_SEQUENCE ==
    << FALSE, FALSE, FALSE, FALSE, FALSE, FALSE, FALSE, TRUE,
       FALSE, FALSE, FALSE, FALSE, FALSE, FALSE, TRUE, TRUE, FALSE,
       FALSE, FALSE, FALSE, TRUE, TRUE, TRUE, TRUE, TRUE,
       TRUE, TRUE, TRUE, TRUE, TRUE, FALSE, FALSE >>

LENGTH_TABLE ==
    << 10, 254, 20, 2, 40, 4, 80, 6, 160, 8, 60, 10, 14, 12, 26, 14, 12, 16, 24, 18, 48, 20, 96, 22,
       192, 24, 72, 26, 16, 28, 32, 30 >>

----------------------------------------------------------------------------
(* LengthCounter (apu.rs:605-632).                                         *)

LengthCounter_new == [enabled |-> TRUE, counter |-> 0]

\* faulty variant: the counter is loaded whether or not it is enabled
LengthCounter_load_always(lc, val) == [lc EXCEPT !.counter = LENGTH_TABLE[val + 1]]

LengthCounter_load(lc, val) ==
    IF lc.enabled THEN [lc EXCEPT !.counter = LENGTH_TABLE[val + 1]] ELSE lc

\* faulty variant: a counter whose enabled flag is false is clocked too
LengthCounter_clock_always(lc) ==
    IF lc.counter > 0 THEN [lc EXCEPT !.counter = @ - 1] ELSE lc

LengthCounter_clock(lc) ==
    IF lc.counter > 0 /\ lc.enabled THEN [lc EXCEPT !.counter = @ - 1] ELSE lc

----------------------------------------------------------------------------
(* Envelope (apu.rs:715-763).                                              *)

Envelope_new ==
    [start |-> FALSE, period |-> 0, step |-> 0, constant_volume |-> FALSE,
     decay_counter |-> 0, loop |-> FALSE]

\* faulty variant: the decay counter is clocked on every call, not only when the
\* divider is at 0
Envelope_clock_eager(e) ==
    IF ~e.start
    THEN [e EXCEPT !.step = IF e.step = 0 THEN e.period ELSE @ - 1,
                   !.decay_counter =
                       IF e.decay_counter # 0 THEN e.decay_counter - 1
                       ELSE IF e.loop THEN 15 ELSE e.decay_counter]
    ELSE [e EXCEPT !.start = FALSE, !.decay_counter = 15, !.step = e.period]

Envelope_clock(e) ==
    IF ~e.start
    THEN IF e.step = 0
         THEN [e EXCEPT !.step = e.period,
                        !.decay_counter =
                            IF e.decay_counter # 0 THEN e.decay_counter - 1
                            ELSE IF e.loop THEN 15 ELSE e.decay_counter]
         ELSE [e EXCEPT !.step = @ - 1]
    ELSE [e EXCEPT !.start = FALSE, !.decay_counter = 15, !.step = e.period]

----------------------------------------------------------------------------
(* Sweep<ADDER> (apu.rs:634-713).                                          *)

Sweep_new ==
    [enabled |-> FALSE, negate |-> FALSE, shift |-> 0, period |-> 0, counter |-> 0,
     reload |-> FALSE, timer |-> 0]

\* faulty variant: the write does not ask for a reload of the divider
Sweep_load_quiet(s, val) ==
    [s EXCEPT !.enabled = Bit(val, 7),
              !.period = Bits(val, 4, 3),
              !.negate = Bit(val, 3),
              !.shift = Bits(val, 0, 3)]

Sweep_load(s, val) ==
    [s EXCEPT !.enabled = Bit(val, 7),
              !.period = Bits(val, 4, 3),
              !.negate = Bit(val, 3),
              !.shift = Bits(val, 0, 3),
              !.reload = TRUE]

\* the divider step of Sweep::clock (apu.rs:679-684)
Sweep_divider(s) ==
    IF s.counter = 0 \/ s.reload
    THEN [s EXCEPT !.counter = U16(s.period + 1), !.reload = FALSE]
    ELSE [s EXCEPT !.counter = @ - 1]

\* does the second step of Sweep::clock recompute the period (apu.rs:686-687)
Sweep_adjusts(s) == Sweep_divider(s).counter = 0 /\ s.enabled

Sweep_change(s) == s.timer \div (2 ^ s.shift)

Sweep_clock(s, ADDER) ==
    LET d == Sweep_divider(s)
        change == Sweep_change(s)
    IN  IF Sweep_adjusts(s)
        THEN [d EXCEPT !.counter = U16(d.period + 1),
                       !.period = IF ~d.negate
                                  THEN U16(d.period + change)
                                  ELSE U16(d.period + U16(ADDER - change))]
        ELSE d

\* the u16 operations of Sweep::clock that leave 0..65535: with overflow
\* checks compiled in, the call panics there
Sweep_overflows(s, ADDER) ==
    LET d == Sweep_divider(s)
        change == Sweep_change(s)
    IN  \/ (s.counter = 0 \/ s.reload) /\ s.period + 1 > 65535
        \/ /\ Sweep_adjusts(s)
           /\ \/ d.period + 1 > 65535
              \/ ~d.negate /\ d.period + change > 65535
              \/ d.negate /\ ADDER - change < 0
              \/ d.negate /\ ADDER - change >= 0 /\ d.period + (ADDER - change) > 65535

----------------------------------------------------------------------------
(* Pulse<ADDER> (apu.rs:318-410).                                          *)

Pulse_new ==
    [duty_cycle |-> 0, duty_seq |-> 0, envelope |-> Envelope_new, sweep |-> Sweep_new,
     length_counter |-> LengthCounter_new]

\* faulty variant: the envelope period keeps five bits of the value
Pulse_set_dlcv_wide(p, val) ==
    [p EXCEPT !.duty_seq = Bits(val, 6, 2) * 8,
              !.length_counter.enabled = ~Bit(val, 5),
              !.envelope.loop = Bit(val, 5),
              !.envelope.constant_volume = Bit(val, 4),
              !.envelope.period = Bits(val, 0, 5)]

Pulse_set_dlcv(p, val) ==
    [p EXCEPT !.duty_seq = Bits(val, 6, 2) * 8,
              !.length_counter.enabled = ~Bit(val, 5),
              !.envelope.loop = Bit(val, 5),
              !.envelope.constant_volume = Bit(val, 4),
              !.envelope.period = Bits(val, 0, 4)]

Pulse_set_epns(p, val) == [p EXCEPT !.sweep = Sweep_load(@, val)]

\* (timer & !0xFF) | val
Pulse_set_t(p, val) == [p EXCEPT !.sweep.timer = (@ \div 256) * 256 + val]

\* (timer & !0x700) | ((val & 7) << 8)
TimerHigh(timer, val) == timer - Bits(timer, 8, 3) * 256 + Bits(val, 0, 3) * 256

Pulse_set_lt(p, val) ==
    [p EXCEPT !.duty_cycle = 0,
              !.length_counter = LengthCounter_load(@, Bits(val, 3, 5)),
              !.sweep.timer = TimerHigh(@, val)]

Pulse_clock(p) ==
    IF p.sweep.timer > 0
    THEN [p EXCEPT !.sweep.timer = @ - 1]
    ELSE [p EXCEPT !.duty_cycle = (@ + 1) % 8, !.sweep.timer = p.sweep.period]

\* Pulse::frame_clock calls these three, in this order (apu.rs:379-383)
Pulse_frame_clock(name) ==
    << <<name, "length_counter.clock">>, <<name, "envelope.clock">>, <<name, "sweep.clock">> >>

\* duty_seq | duty_cycle: the two fields have no bit in common
DutyIndex(p) == p.duty_seq + p.duty_cycle

\* faulty variant: the sweep period is wrapped to 11 bits, so the overflow gate
\* never closes
Pulse_output_wrapped(p) ==
    LET active == DUTY_SEQUENCE[DutyIndex(p) + 1]
    IN  IF /\ active
           /\ p.length_counter.counter > 0
           /\ p.sweep.timer >= 8
           /\ p.sweep.period % 2048 < 2048
        THEN IF p.envelope.constant_volume THEN p.envelope.period ELSE p.envelope.step
        ELSE 0

\* faulty variant: the timer gate is missing
Pulse_output_untimed(p) ==
    LET active == DUTY_SEQUENCE[DutyIndex(p) + 1]
    IN  IF /\ active
           /\ p.length_counter.counter > 0
           /\ p.sweep.period < 2048
        THEN IF p.envelope.constant_volume THEN p.envelope.period ELSE p.envelope.step
        ELSE 0

Pulse_output(p) ==
    LET active == DUTY_SEQUENCE[DutyIndex(p) + 1]
    IN  IF /\ active
           /\ p.length_counter.counter > 0
           /\ p.sweep.timer >= 8
           /\ p.sweep.period < 2048
        THEN IF p.envelope.constant_volume THEN p.envelope.period ELSE p.envelope.step
        ELSE 0

----------------------------------------------------------------------------
(* Triangle (apu.rs:422-460), Noise (apu.rs:469-510), Dmc (apu.rs:516-564). *)

Triangle_new ==
    [counter_control |-> FALSE, counter_reload |-> 0, timer |-> 0,
     length_counter |-> LengthCounter_new]

Triangle_set_c(t, val) ==
    [t EXCEPT !.counter_control = Bit(val, 7),
              !.length_counter.enabled = ~Bit(val, 7),
              !.counter_reload = Bits(val, 0, 7)]

Triangle_set_tl(t, val) == [t EXCEPT !.timer = (@ \div 256) * 256 + val]

Triangle_set_l(t, val) ==
    [t EXCEPT !.length_counter = LengthCounter_load(@, Bits(val, 3, 5)),
              !.timer = TimerHigh(@, val)]

Noise_new ==
    [constant_volume |-> FALSE, volume |-> 0, loop_noise |-> FALSE, noise_period |-> 0,
     length_counter |-> LengthCounter_new]

Noise_set_lcn(n, val) ==
    [n EXCEPT !.length_counter.enabled = ~Bit(val, 5),
              !.constant_volume = Bit(val, 4),
              !.volume = Bits(val, 0, 4)]

Noise_set_lp(n, val) ==
    [n EXCEPT !.loop_noise = Bit(val, 7), !.noise_period = Bits(val, 0, 4)]

Noise_set_l(n, val) ==
    [n EXCEPT !.length_counter = LengthCounter_load(@, Bits(val, 3, 5))]

Dmc_new ==
    [irq_enable |-> FALSE, loop_sample |-> FALSE, frequency_index |-> 0, direct_load |-> 0,
     sample_address |-> 0, sample_length |-> 0]

Dmc_set_ilf(d, val) ==
    [d EXCEPT !.irq_enable = Bit(val, 7),
              !.loop_sample = Bit(val, 6),
              !.frequency_index = Bits(val, 0, 4)]

Dmc_set_d(d, val) == [d EXCEPT !.direct_load = Bits(val, 0, 7)]

\* 0xC000 | (val << 6): val << 6 is below 0x4000
Dmc_set_a(d, val) == [d EXCEPT !.sample_address = 49152 + val * 64]

\* 1 | (val << 4)
Dmc_set_l(d, val) == [d EXCEPT !.sample_length = 1 + val * 16]

----------------------------------------------------------------------------
(* FrameCounter (apu.rs:572-598).                                          *)

FrameCounter_new == [mode |-> FALSE, odd_cycle |-> FALSE, irq_inhibit |-> TRUE]

\* faulty variant: the irq line is cleared when the inhibit flag ends up clear
FrameCounter_set_mi_inverted(fc, val, irq) ==
    LET inhibit == fc.irq_inhibit /\ ~Bit(val, 6)
    IN  [frame_counter |-> [fc EXCEPT !.mode = Bit(val, 7), !.irq_inhibit = inhibit],
         irq_signal |-> IF ~inhibit THEN FALSE ELSE irq]

\* set_mi changes the frame counter and, through its reference, the irq line
FrameCounter_set_mi(fc, val, irq) ==
    LET inhibit == fc.irq_inhibit /\ ~Bit(val, 6)
    IN  [frame_counter |-> [fc EXCEPT !.mode = Bit(val, 7), !.irq_inhibit = inhibit],
         irq_signal |-> IF inhibit THEN FALSE ELSE irq]

----------------------------------------------------------------------------
(* Apu (apu.rs:7-49).                                                      *)

Apu_new ==
    [cycles |-> 0, sample_counter |-> 0,
     pulse_1 |-> Pulse_new, pulse_2 |-> Pulse_new,
     triangle |-> Triangle_new, noise |-> Noise_new, dmc |-> Dmc_new,
     frame_counter |-> FrameCounter_new]

----------------------------------------------------------------------------
(* Unit clocks.  An operation is modelled by the list of unit clocks it    *)
(* calls, in the order of the source; Exec applies them to the Apu.        *)

PULSE_1_ADDER == 1
PULSE_2_ADDER == 0

Call(a, c) ==
    CASE c = <<"pulse_1", "clock">> -> [a EXCEPT !.pulse_1 = Pulse_clock(@)]
      [] c = <<"pulse_2", "clock">> -> [a EXCEPT !.pulse_2 = Pulse_clock(@)]
      [] c = <<"pulse_1", "length_counter.clock">> ->
            [a EXCEPT !.pulse_1.length_counter = LengthCounter_clock(@)]
      [] c = <<"pulse_2", "length_counter.clock">> ->
            [a EXCEPT !.pulse_2.length_counter = LengthCounter_clock(@)]
      [] c = <<"triangle", "length_counter.clock">> ->
            [a EXCEPT !.triangle.length_counter = LengthCounter_clock(@)]
      [] c = <<"noise", "length_counter.clock">> ->
            [a EXCEPT !.noise.length_counter = LengthCounter_clock(@)]
      [] c = <<"pulse_1", "envelope.clock">> ->
            [a EXCEPT !.pulse_1.envelope = Envelope_clock(@)]
      [] c = <<"pulse_2", "envelope.clock">> ->
            [a EXCEPT !.pulse_2.envelope = Envelope_clock(@)]
      [] c = <<"pulse_1", "sweep.clock">> ->
            [a EXCEPT !.pulse_1.sweep = Sweep_clock(@, PULSE_1_ADDER)]
      [] c = <<"pulse_2", "sweep.clock">> ->
            [a EXCEPT !.pulse_2.sweep = Sweep_clock(@, PULSE_2_ADDER)]

CallOverflows(a, c) ==
    CASE c = <<"pulse_1", "sweep.clock">> -> Sweep_overflows(a.pulse_1.sweep, PULSE_1_ADDER)
      [] c = <<"pulse_2", "sweep.clock">> -> Sweep_overflows(a.pulse_2.sweep, PULSE_2_ADDER)
      [] OTHER -> FALSE

RECURSIVE Exec(_, _)
Exec(a, cs) == IF cs = <<>> THEN a ELSE Exec(Call(a, Head(cs)), Tail(cs))

RECURSIVE ExecOverflows(_, _)
ExecOverflows(a, cs) ==
    IF cs = <<>> THEN FALSE
    ELSE CallOverflows(a, Head(cs)) \/ ExecOverflows(Call(a, Head(cs)), Tail(cs))

\* how often the call list cs calls method m of unit u
Count(cs, u, m) == Cardinality({i \in DOMAIN cs : cs[i] = <<u, m>>})

----------------------------------------------------------------------------
(* Nes::apu_tick (apu.rs:54-149) and Nes::mixer (apu.rs:152-179).          *)

\* faulty variant: the parity is taken after the counter is incremented
TimerCalls_odd(cycles) ==
    IF (cycles + 1) % 2 = 0 THEN << <<"pulse_1", "clock">>, <<"pulse_2", "clock">> >> ELSE <<>>

\* apu.rs:55-58
TimerCalls(cycles) ==
    IF cycles % 2 = 0 THEN << <<"pulse_1", "clock">>, <<"pulse_2", "clock">> >> ELSE <<>>

QuarterFrame == << <<"pulse_1", "envelope.clock">>, <<"pulse_2", "envelope.clock">> >>

HalfFrame ==
    Pulse_frame_clock("pulse_1") \o Pulse_frame_clock("pulse_2")
        \o << <<"noise", "length_counter.clock">>, <<"triangle", "length_counter.clock">> >>

\* faulty variant: the 5-step sequence ends with the 4-step sequence's last event
FrameCalls_fourStepEnd(mode, cycles) ==
    CASE cycles = 7457 -> QuarterFrame
      [] cycles = 14913 -> HalfFrame
      [] cycles = 22371 -> QuarterFrame
      [] cycles = 29829 -> HalfFrame
      [] OTHER -> <<>>

\* the arms of the two matches on the counter (apu.rs:63-142)
FrameCalls(mode, cycles) ==
    IF mode
    THEN CASE cycles = 7457 -> QuarterFrame
           [] cycles = 14913 -> HalfFrame
           [] cycles = 22371 -> QuarterFrame
           [] cycles = 37281 -> HalfFrame
           [] OTHER -> <<>>
    ELSE CASE cycles = 7457 -> QuarterFrame
           [] cycles = 14913 -> HalfFrame
           [] cycles = 22371 -> QuarterFrame
           [] cycles = 29829 -> HalfFrame
           [] OTHER -> <<>>

\* faulty variant: the 4-step counter is set back one tick early
FrameWrap_early(mode, cycles) == IF mode THEN cycles = 37282 ELSE cycles = 29829

\* the arms that set the counter back to 0 (apu.rs:91-93, 133-139)
FrameWrap(mode, cycles) == IF mode THEN cycles = 37282 ELSE cycles = 29830

\* faulty variant: the divider is compared before it is incremented
SampleDivider_early(sample_counter) ==
    [counter |-> IF sample_counter = SAMPLE_FREQ THEN 0 ELSE sample_counter + 1,
     mix |-> sample_counter = SAMPLE_FREQ]

\* the sample divider (apu.rs:144-148): the counter after the tick and whether
\* the mixer is called
SampleDivider(sample_counter) ==
    LET sc == sample_counter + 1
    IN  [counter |-> IF sc = SAMPLE_FREQ THEN 0 ELSE sc, mix |-> sc = SAMPLE_FREQ]

\* faulty variant: the noise volume and the DMC level feed the second index
mixer_tnd(a) ==
    [pulse |-> Pulse_output(a.pulse_1) + Pulse_output(a.pulse_2),
     tnd |-> 3 * 0 + 2 * a.noise.volume + a.dmc.direct_load]

\* the two table indices of Nes::mixer
mixer(a) ==
    [pulse |-> Pulse_output(a.pulse_1) + Pulse_output(a.pulse_2),
     tnd |-> 3 * 0 + 2 * 0 + 0]

\* [apu, calls, seq, overflow, mixed]: the Apu after the tick, the unit clocks
\* called, the counter value matched on, whether a u16 operation overflowed,
\* and whether the mixer ran
apu_tick(a) ==
    LET c1 == TimerCalls(a.cycles)
        a1 == Exec(a, c1)
        cycles == U16(a1.cycles + 1)
        c2 == FrameCalls(a1.frame_counter.mode, cycles)
        a2 == Exec(a1, c2)
        wrap == FrameWrap(a1.frame_counter.mode, cycles)
        sd == SampleDivider(a2.sample_counter)
    IN  [apu |-> [a2 EXCEPT !.cycles = IF wrap THEN 0 ELSE cycles,
                            !.sample_counter = sd.counter],
         calls |-> c1 \o c2,
         seq |-> cycles,
         overflow |-> ExecOverflows(a1, c2),
         mixed |-> sd.mix]

----------------------------------------------------------------------------
(* Nes::apu_write_status (apu.rs:266-297).                                 *)

\* faulty variant: the counter is left to run out
StatusEnable_keep(lc, bit) == [enabled |-> bit, counter |-> lc.counter]

\* faulty variant: the counter is cleared whatever the bit
StatusEnable_zero(lc, bit) == [enabled |-> bit, counter |-> 0]

\* one channel's part of the write: counter forced to 0 when its bit is clear,
\* enabled set to the bit
StatusEnable(lc, bit) ==
    [enabled |-> bit, counter |-> IF ~bit THEN 0 ELSE lc.counter]

apu_write_status(a, val) ==
    LET n == Bit(val, 3)
        t == Bit(val, 2)
        p_2 == Bit(val, 1)
        p_1 == Bit(val, 0)
    IN  [a EXCEPT !.dmc.irq_enable = FALSE,
                  !.noise.volume = IF ~n THEN 0 ELSE @,
                  !.noise.length_counter = StatusEnable(@, n),
                  !.triangle.length_counter = StatusEnable(@, t),
                  !.pulse_2.length_counter = StatusEnable(@, p_2),
                  !.pulse_1.length_counter = StatusEnable(@, p_1)]

----------------------------------------------------------------------------
(* Nes::apu_write_reg (apu.rs:183-222).  Addresses: 0x4000 = 16384.        *)

\* faulty variant: the units are clocked when the 4-step sequence is selected
ModeCalls_fourStep(val) == IF ~Bit(val, 7) THEN HalfFrame ELSE <<>>

\* the unit clocks a write to 0x4017 calls before set_mi (apu.rs:209-215)
ModeCalls(val) == IF Bit(val, 7) THEN HalfFrame ELSE <<>>

\* [apu, irq_signal, calls, overflow]
apu_write_reg(a, irq, addr, val) ==
    LET same(x) == [apu |-> x, irq_signal |-> irq, calls |-> <<>>, overflow |-> FALSE]
    IN  CASE addr = 16384 -> same([a EXCEPT !.pulse_1 = Pulse_set_dlcv(@, val)])
          [] addr = 16385 -> same([a EXCEPT !.pulse_1 = Pulse_set_epns(@, val)])
          [] addr = 16386 -> same([a EXCEPT !.pulse_1 = Pulse_set_t(@, val)])
          [] addr = 16387 -> same([a EXCEPT !.pulse_1 = Pulse_set_lt(@, val)])
          [] addr = 16388 -> same([a EXCEPT !.pulse_2 = Pulse_set_dlcv(@, val)])
          [] addr = 16389 -> same([a EXCEPT !.pulse_2 = Pulse_set_epns(@, val)])
          [] addr = 16390 -> same([a EXCEPT !.pulse_2 = Pulse_set_t(@, val)])
          [] addr = 16391 -> same([a EXCEPT !.pulse_2 = Pulse_set_lt(@, val)])
          [] addr = 16392 -> same([a EXCEPT !.triangle = Triangle_set_c(@, val)])
          [] addr = 16394 -> same([a EXCEPT !.triangle = Triangle_set_tl(@, val)])
          [] addr = 16395 -> same([a EXCEPT !.triangle = Triangle_set_l(@, val)])
          [] addr = 16396 -> same([a EXCEPT !.noise = Noise_set_lcn(@, val)])
          [] addr = 16398 -> same([a EXCEPT !.noise = Noise_set_lp(@, val)])
          [] addr = 16399 -> same([a EXCEPT !.noise = Noise_set_l(@, val)])
          [] addr = 16400 -> same([a EXCEPT !.dmc = Dmc_set_ilf(@, val)])
          [] addr = 16401 -> same([a EXCEPT !.dmc = Dmc_set_d(@, val)])
          [] addr = 16402 -> same([a EXCEPT !.dmc = Dmc_set_a(@, val)])
          [] addr = 16403 -> same([a EXCEPT !.dmc = Dmc_set_l(@, val)])
          [] addr = 16405 -> same(apu_write_status(a, val))
          [] addr = 16407 ->
                LET cs == ModeCalls(val)
                    a1 == Exec(a, cs)
                    mi == FrameCounter_set_mi(a1.frame_counter, val, irq)
                IN  [apu |-> [a1 EXCEPT !.frame_counter = mi.frame_counter],
                     irq_signal |-> mi.irq_signal,
                     calls |-> cs,
                     overflow |-> ExecOverflows(a, cs)]
          [] OTHER -> same(a)

----------------------------------------------------------------------------
(* Nes::apu_read_status (apu.rs:226-258).                                  *)

\* faulty variant: the frame interrupt bit reports the mode, the DMC flag goes to bit 4
StatusByte_shifted(a) ==
    (IF a.pulse_1.length_counter.counter > 0 THEN 1 ELSE 0)
    + (IF a.pulse_2.length_counter.counter > 0 THEN 2 ELSE 0)
    + (IF a.triangle.length_counter.counter > 0 THEN 4 ELSE 0)
    + (IF a.noise.length_counter.counter > 0 THEN 8 ELSE 0)
    + (IF a.frame_counter.mode THEN 64 ELSE 0)
    + (IF a.dmc.irq_enable THEN 16 ELSE 0)

\* the byte returned
StatusByte(a) ==
    (IF a.pulse_1.length_counter.counter > 0 THEN 1 ELSE 0)
    + (IF a.pulse_2.length_counter.counter > 0 THEN 2 ELSE 0)
    + (IF a.triangle.length_counter.counter > 0 THEN 4 ELSE 0)
    + (IF a.noise.length_counter.counter > 0 THEN 8 ELSE 0)
    + (IF a.frame_counter.irq_inhibit THEN 64 ELSE 0)
    + (IF a.dmc.irq_enable THEN 128 ELSE 0)

\* faulty variant: the read reports the flags and clears only the interrupt line
apu_read_status_pure(a) ==
    [apu |-> a,
     irq_signal |-> FALSE,
     result |-> StatusByte(a)]

\* [apu, irq_signal, result]
apu_read_status(a) ==
    [apu |-> [a EXCEPT !.frame_counter.irq_inhibit = FALSE],
     irq_signal |-> FALSE,
     result |-> StatusByte(a)]

----------------------------------------------------------------------------
(* The operations as actions.                                              *)

NoSample == [valid |-> FALSE, pulse |-> 0, tnd |-> 0]

\* With overflow checks compiled in (the dev profile) an overflowing u16
\* operation panics; without them (the release profile) it wraps.
Outcome(overflow) == IF overflow THEN BOOLEAN ELSE {FALSE}

\* faulty variant: the last three steps of the 4-step sequence raise the frame
\* interrupt unless it is inhibited
DoTick_irq ==
    LET t == apu_tick(apu)
    IN  /\ ~panicked
        /\ panicked' \in Outcome(t.overflow)
        /\ apu' = IF panicked' THEN apu ELSE t.apu
        /\ irq_signal' = (\/ irq_signal
                          \/ /\ ~apu.frame_counter.mode
                             /\ t.seq \in {29828, 29829, 29830}
                             /\ ~apu.frame_counter.irq_inhibit)
        /\ op' = [name |-> "tick", addr |-> 0, val |-> 0]
        /\ before' = apu
        /\ irq_before' = irq_signal
        /\ calls' = t.calls \o (IF t.mixed THEN << <<"apu", "mixer">> >> ELSE <<>>)
        /\ sample' = IF t.mixed THEN [valid |-> TRUE] @@ mixer(t.apu) ELSE sample
        /\ seq' = t.seq
        /\ timers' = IF Count(t.calls, "pulse_1", "clock") > 0 THEN "clocked" ELSE "skipped"
        /\ now' = now + 1
        /\ nticks' = nticks + 1
        /\ UNCHANGED <<result, nwrites, nreads>>

DoTick ==
    LET t == apu_tick(apu)
    IN  /\ ~panicked
        /\ panicked' \in Outcome(t.overflow)
        /\ apu' = IF panicked' THEN apu ELSE t.apu
        /\ op' = [name |-> "tick", addr |-> 0, val |-> 0]
        /\ before' = apu
        /\ irq_before' = irq_signal
        /\ calls' = t.calls \o (IF t.mixed THEN << <<"apu", "mixer">> >> ELSE <<>>)
        /\ sample' = IF t.mixed THEN [valid |-> TRUE] @@ mixer(t.apu) ELSE sample
        /\ seq' = t.seq
        /\ timers' = IF Count(t.calls, "pulse_1", "clock") > 0 THEN "clocked" ELSE "skipped"
        /\ now' = now + 1
        /\ nticks' = nticks + 1
        /\ UNCHANGED <<irq_signal, result, nwrites, nreads>>

\* faulty variant: only the low five address bits are decoded, so every address
\* is a mirror of a register between 0x4000 and 0x401F
DoWrite_mirrored(addr, val) ==
    LET w == apu_write_reg(apu, irq_signal, 16384 + (addr % 32), val)
    IN  /\ ~panicked
        /\ panicked' \in Outcome(w.overflow)
        /\ apu' = IF panicked' THEN apu ELSE w.apu
        /\ irq_signal' = IF panicked' THEN irq_signal ELSE w.irq_signal
        /\ op' = [name |-> "write", addr |-> addr, val |-> val]
        /\ before' = apu
        /\ irq_before' = irq_signal
        /\ calls' = w.calls
        /\ nwrites' = nwrites + 1
        /\ UNCHANGED <<result, sample, seq, timers, now, nticks, nreads>>

DoWrite(addr, val) ==
    LET w == apu_write_reg(apu, irq_signal, addr, val)
    IN  /\ ~panicked
        /\ panicked' \in Outcome(w.overflow)
        /\ apu' = IF panicked' THEN apu ELSE w.apu
        /\ irq_signal' = IF panicked' THEN irq_signal ELSE w.irq_signal
        /\ op' = [name |-> "write", addr |-> addr, val |-> val]
        /\ before' = apu
        /\ irq_before' = irq_signal
        /\ calls' = w.calls
        /\ nwrites' = nwrites + 1
        /\ UNCHANGED <<result, sample, seq, timers, now, nticks, nreads>>

DoRead ==
    LET r == apu_read_status(apu)
    IN  /\ ~panicked
        /\ apu' = r.apu
        /\ irq_signal' = r.irq_signal
        /\ result' = r.result
        /\ op' = [name |-> "read", addr |-> 16405, val |-> 0]
        /\ before' = apu
        /\ irq_before' = irq_signal
        /\ calls' = <<>>
        /\ nreads' = nreads + 1
        /\ UNCHANGED <<panicked, sample, seq, timers, now, nticks, nwrites>>

\* the state after Apu::new
PowerOn ==
    /\ apu = Apu_new
    /\ irq_signal = FALSE
    /\ panicked = FALSE
    /\ op = [name |-> "new", addr |-> 0, val |-> 0]
    /\ before = Apu_new
    /\ irq_before = FALSE
    /\ calls = <<>>
    /\ result = 0
    /\ sample = NoSample
    /\ seq = 0
    /\ timers = "none"
    /\ now = 0
    /\ nticks = 0
    /\ nwrites = 0
    /\ nreads = 0

----------------------------------------------------------------------------
(* SpecSeq: the frame sequence left to run.  From power-on the sequencer   *)
(* is ticked MaxRun times; a write to 0x4017 before the first tick may     *)
(* select the 5-step sequence, and when the 5-step counter has passed the  *)
(* 4-step wrap point a second write may select the 4-step sequence again.  *)

MaxRun == 74600

\* the tick at which the second mode write is made: counter 29831 in 5-step mode
SwitchAt == 29831

TickSeq == now < MaxRun /\ DoTick

ModeSeq ==
    \/ /\ now = 0 /\ nwrites = 0
       /\ DoWrite(16407, 128)
    \/ /\ now = SwitchAt /\ nwrites = 1 /\ op.name = "tick"
       /\ DoWrite(16407, 0)

NextSeq == TickSeq \/ ModeSeq

SpecSeq == PowerOn /\ [][NextSeq]_vars

----------------------------------------------------------------------------
(* Spec: ticks, register writes and status reads in any order.  A          *)
(* behaviour starts at power-on or at a later point of an undisturbed run  *)
(* (shortly before an event of the frame sequence) and is a bounded number *)
(* of operations long.                                                     *)

MaxTicks == 3
MaxWrites == 2
MaxReads == 1

\* the register writes made, <<address, value>>: length loads for the four
\* channels, a sweep setup, the DMC interrupt enable, the channel enables and
\* the four mode/inhibit combinations
Writes ==
    {<<16387, 8>>,                            \* 0x4003 <- 0x08: pulse 1 length 254
     <<16391, 27>>,                           \* 0x4007 <- 0x1B: pulse 2 length 2
     <<16395, 8>>,                            \* 0x400B <- 0x08: triangle length 254
     <<16399, 27>>,                           \* 0x400F <- 0x1B: noise length 2
     <<16385, 136>>,                          \* 0x4001 <- 0x88: pulse 1 sweep
     <<16400, 128>>,                          \* 0x4010 <- 0x80: DMC interrupt enable
     <<16405, 0>>, <<16405, 31>>, <<16405, 5>>,                    \* 0x4015
     <<16407, 0>>, <<16407, 64>>, <<16407, 128>>, <<16407, 192>>}  \* 0x4017

\* the points of an undisturbed run a behaviour may start at: the number of
\* ticks since power-on and the sequence run ("4": power-on, 4-step; "5": 0x80
\* written to 0x4017 at power-on, 5-step; "54": as "5", then 0x00 written to
\* 0x4017 after tick SwitchAt, 4-step with the counter beyond its wrap point)
StartPoints ==
    {[now |-> 0, run |-> "4"], [now |-> 14911, run |-> "4"], [now |-> 29828, run |-> "4"],
     [now |-> 29828, run |-> "5"], [now |-> 37279, run |-> "5"],
     [now |-> 65534, run |-> "54"]}

\* half-frame clocks made up to the point: by the write of 0x80 and by the
\* ticks that reached 14913 (all points lie before the sequence's last event)
HalfFramesAt(pt) ==
    (IF pt.run = "4" THEN 0 ELSE 1) + (IF pt.now >= 14913 THEN 1 ELSE 0)

\* The Apu at a start point.  At power-on every pulse timer and period is 0 and
\* every length counter is 0, so a run without writes changes only the counters:
\* the duty phase advances on every tick that starts at an even counter, the
\* sweep divider alternates between 0 and 1 on the half-frame clocks.
ApuAt(pt) ==
    LET duty == ((pt.now + 1) \div 2) % 8
        div == HalfFramesAt(pt) % 2
    IN  [Apu_new EXCEPT !.cycles = pt.now,
                        !.sample_counter = pt.now % SAMPLE_FREQ,
                        !.pulse_1.duty_cycle = duty,
                        !.pulse_2.duty_cycle = duty,
                        !.pulse_1.sweep.counter = div,
                        !.pulse_2.sweep.counter = div,
                        !.frame_counter.mode = (pt.run = "5")]

SampleAt(pt) == IF pt.now >= SAMPLE_FREQ THEN [valid |-> TRUE, pulse |-> 0, tnd |-> 0] ELSE NoSample

TimersAt(pt) ==
    IF pt.now = 0 THEN "none" ELSE IF (pt.now - 1) % 2 = 0 THEN "clocked" ELSE "skipped"

Init ==
    \E pt \in StartPoints :
        /\ apu = ApuAt(pt)
        /\ irq_signal = FALSE
        /\ panicked = FALSE
        /\ op = [name |-> "new", addr |-> 0, val |-> 0]
        /\ before = ApuAt(pt)
        /\ irq_before = FALSE
        /\ calls = <<>>
        /\ result = 0
        /\ sample = SampleAt(pt)
        /\ seq = 0
        /\ timers = TimersAt(pt)
        /\ now = pt.now
        /\ nticks = 0
        /\ nwrites = 0
        /\ nreads = 0

\* SpecSeq reaches every start point: checked under SpecSeq
StartPointsReached ==
    \A pt \in StartPoints :
        (/\ now = pt.now
         /\ nwrites = (CASE pt.run = "4" -> 0 [] pt.run = "5" -> 1 [] pt.run = "54" -> 2))
        => (apu = ApuAt(pt) /\ sample = SampleAt(pt) /\ timers = TimersAt(pt)
            /\ irq_signal = FALSE /\ ~panicked)

Tick == nticks < MaxTicks /\ DoTick

WriteReg == nwrites < MaxWrites /\ \E w \in Writes : DoWrite(w[1], w[2])

ReadStatus == nreads < MaxReads /\ DoRead

\* Another interrupt source of the console raises the shared line.
ExternalIrq ==
    /\ ~panicked
    /\ ~irq_signal
    /\ irq_signal' = TRUE
    /\ op' = [name |-> "irq", addr |-> 0, val |-> 0]
    /\ before' = apu
    /\ irq_before' = irq_signal
    /\ calls' = <<>>
    /\ UNCHANGED <<apu, panicked, result, sample, seq, timers, now, nticks, nwrites, nreads>>

Next == Tick \/ WriteReg \/ ReadStatus \/ ExternalIrq

Spec == Init /\ [][Next]_vars

----------------------------------------------------------------------------
(* What the last operation clocked.                                        *)

IsTick == op.name = "tick" /\ ~panicked

IsWrite(addr) == op.name = "write" /\ op.addr = addr /\ ~panicked

EnvelopeClocks(n) ==
    /\ Count(calls, "pulse_1", "envelope.clock") = n
    /\ Count(calls, "pulse_2", "envelope.clock") = n

LengthSweepClocks(n) ==
    /\ Count(calls, "pulse_1", "length_counter.clock") = n
    /\ Count(calls, "pulse_2", "length_counter.clock") = n
    /\ Count(calls, "triangle", "length_counter.clock") = n
    /\ Count(calls, "noise", "length_counter.clock") = n
    /\ Count(calls, "pulse_1", "sweep.clock") = n
    /\ Count(calls, "pulse_2", "sweep.clock") = n

TimerClocks(n) ==
    /\ Count(calls, "pulse_1", "clock") = n
    /\ Count(calls, "pulse_2", "clock") = n

\* the four length counters of an Apu, in the order of the status bits 0..3
Lengths(a) ==
    << a.pulse_1.length_counter, a.pulse_2.length_counter,
       a.triangle.length_counter, a.noise.length_counter >>

----------------------------------------------------------------------------
(* C1-C2: the frame sequence (under SpecSeq).                              *)

\* C1: in 4-step mode, from counter 0 and with no register write, a tick clocks
\* both pulse envelopes exactly when it brings the counter to 7457, 14913, 22371
\* or 29829, clocks the four length counters and the two sweeps exactly when it
\* brings the counter to 14913 or 29829, and the tick that brings the counter to
\* 29830 sets it to 0: the counter is the number of ticks modulo 29830.
C1_FourStepSchedule ==
    (IsTick /\ nwrites = 0) =>
        /\ ~apu.frame_counter.mode
        /\ EnvelopeClocks(IF seq \in {7457, 14913, 22371, 29829} THEN 1 ELSE 0)
        /\ LengthSweepClocks(IF seq \in {14913, 29829} THEN 1 ELSE 0)
        /\ apu.cycles = (IF seq = 29830 THEN 0 ELSE seq)
        /\ apu.cycles = now % 29830

\* the last event of the second 4-step run
C1_Witness ==
    /\ IsTick /\ nwrites = 0 /\ now = 29830 + 29829
    /\ seq = 29829
    /\ EnvelopeClocks(1) /\ LengthSweepClocks(1)

\* C2: in 5-step mode, from counter 0 and with no register write since the mode
\* was set, a tick clocks both pulse envelopes exactly when it brings the counter
\* to 7457, 14913, 22371 or 37281, clocks the length counters and sweeps exactly
\* at 14913 and 37281, and the tick that brings the counter to 37282 sets it to 0
\* and clocks no unit: the counter is the number of ticks modulo 37282.
C2_FiveStepSchedule ==
    (IsTick /\ nwrites = 1) =>
        /\ apu.frame_counter.mode
        /\ EnvelopeClocks(IF seq \in {7457, 14913, 22371, 37281} THEN 1 ELSE 0)
        /\ LengthSweepClocks(IF seq \in {14913, 37281} THEN 1 ELSE 0)
        /\ apu.cycles = (IF seq = 37282 THEN 0 ELSE seq)
        /\ apu.cycles = now % 37282
        /\ seq = 37282 => (TimerClocks(0) /\ EnvelopeClocks(0) /\ LengthSweepClocks(0))

\* the tick that ends the second 5-step run
C2_Witness ==
    /\ IsTick /\ nwrites = 1 /\ now = 2 * 37282
    /\ seq = 37282 /\ apu.cycles = 0
    /\ calls = <<>>

----------------------------------------------------------------------------
(* C3-C4: the two dividers of apu_tick (under Spec).                       *)

\* C3: a tick clocks both pulse timers exactly when the counter is even as the
\* tick starts, and of two consecutive ticks, whatever writes, reads and counter
\* resets lie between them, exactly one clocks the timers.
C3_PulseTimersAlternate ==
    /\ [](IsTick =>
            /\ TimerClocks(IF before.cycles % 2 = 0 THEN 1 ELSE 0)
            /\ timers = (IF before.cycles % 2 = 0 THEN "clocked" ELSE "skipped"))
    /\ [][(now' # now /\ ~panicked' /\ timers # "none") => timers' # timers]_vars

\* a tick after a write of the mode that starts at the reset counter
C3_Witness ==
    /\ IsTick /\ nwrites > 0 /\ nreads > 0
    /\ before.cycles = 0 /\ now > 1
    /\ TimerClocks(1)

\* C4: the mixer runs on exactly every 40th tick since power-on, whatever
\* operations are interleaved, and the sample divider stays within 0..39.
C4_MixerEvery40 ==
    /\ apu.sample_counter \in 0 .. 39
    /\ ~panicked => apu.sample_counter = now % 40
    /\ IsTick => Count(calls, "apu", "mixer") = (IF now % 40 = 0 THEN 1 ELSE 0)
    /\ ~IsTick => Count(calls, "apu", "mixer") = 0

\* the mixer runs on a 40th tick that follows a register write
C4_Witness ==
    /\ IsTick /\ nwrites > 0 /\ now % 40 = 0
    /\ Count(calls, "apu", "mixer") = 1 /\ sample.valid

----------------------------------------------------------------------------
(* C5-C6: writes to 0x4015 (under Spec).                                   *)

\* C5: a write to 0x4015 with a channel's enable bit clear leaves that channel's
\* length counter 0 when it returns, whatever the counter was, and a status read
\* made next returns 0 in the channel's bit.
C5_DisableSilences ==
    /\ [](IsWrite(16405) =>
            \A k \in 1 .. 4 : ~Bit(op.val, k - 1) => Lengths(apu)[k].counter = 0)
    /\ [][(IsWrite(16405) /\ op'.name = "read") =>
            \A k \in 1 .. 4 : ~Bit(op.val, k - 1) => ~Bit(result', k - 1)]_vars

\* a write that clears the enable bit of a channel whose counter is running
C5_Witness ==
    /\ IsWrite(16405)
    /\ \E k \in 1 .. 4 :
        ~Bit(op.val, k - 1) /\ Lengths(before)[k].counter > 0 /\ Lengths(apu)[k].counter = 0

\* C6: after a write of v to 0x4015 the DMC interrupt-enable flag is false, each
\* length counter's enabled flag is its bit of v, and a channel whose bit is set
\* keeps its counter.
C6_StatusWrite ==
    IsWrite(16405) =>
        /\ ~apu.dmc.irq_enable
        /\ \A k \in 1 .. 4 :
            /\ Lengths(apu)[k].enabled = Bit(op.val, k - 1)
            /\ Bit(op.val, k - 1) => Lengths(apu)[k].counter = Lengths(before)[k].counter

\* a write that keeps the running counter of a channel it enables and disables
\* another channel
C6_Witness ==
    /\ IsWrite(16405)
    /\ \E k \in 1 .. 4 : Bit(op.val, k - 1) /\ Lengths(apu)[k].counter > 0
    /\ \E k \in 1 .. 4 : ~Bit(op.val, k - 1) /\ ~Lengths(apu)[k].enabled

----------------------------------------------------------------------------
(* C7-C9: writes to 0x4017 (under Spec).                                   *)

\* C7 (as claimed): after a write of v to 0x4017 the mode flag is bit 7 of v and
\* the interrupt-inhibit flag is bit 6 of v.
C7_ModeAndInhibitFromValue ==
    IsWrite(16407) =>
        /\ apu.frame_counter.mode = Bit(op.val, 7)
        /\ apu.frame_counter.irq_inhibit = Bit(op.val, 6)

C9_ModeWriteClocks ==
    IsWrite(16407) =>
        IF Bit(op.val, 7)
        THEN /\ LengthSweepClocks(1)
             /\ \A k \in 1 .. 4 :
                 Lengths(apu)[k].counter =
                     (IF Lengths(before)[k].enabled /\ Lengths(before)[k].counter > 0
                      THEN Lengths(before)[k].counter - 1
                      ELSE Lengths(before)[k].counter)
             /\ apu.pulse_1.sweep = Sweep_clock(before.pulse_1.sweep, PULSE_1_ADDER)
             /\ apu.pulse_2.sweep = Sweep_clock(before.pulse_2.sweep, PULSE_2_ADDER)
        ELSE /\ calls = <<>>
             /\ [apu EXCEPT !.frame_counter = before.frame_counter] = before

\* the write lowers a running length counter away from the start of the sequence
C9_Witness ==
    /\ IsWrite(16407) /\ Bit(op.val, 7)
    /\ before.cycles > 0
    /\ \E k \in 1 .. 4 :
        Lengths(before)[k].counter > 0 /\ Lengths(apu)[k].counter = Lengths(before)[k].counter - 1

----------------------------------------------------------------------------
(* C10: status reads (under Spec).                                         *)

\* C10: read_status returns a byte whose bits 0..3 say which length counters are
\* above 0, whose bit 6 is the inhibit flag as it was before the read, whose bit 7
\* is the DMC interrupt-enable flag, and whose bits 4 and 5 are 0.
C10_StatusBits ==
    (op.name = "read" /\ ~panicked) =>
        /\ result \in 0 .. 255
        /\ \A k \in 1 .. 4 : Bit(result, k - 1) = (Lengths(before)[k].counter > 0)
        /\ ~Bit(result, 4) /\ ~Bit(result, 5)
        /\ Bit(result, 6) = before.frame_counter.irq_inhibit
        /\ Bit(result, 7) = before.dmc.irq_enable

\* a read that reports a running channel and the DMC flag
C10_Witness ==
    /\ op.name = "read" /\ ~panicked
    /\ Bit(result, 7) /\ Bit(result, 6)
    /\ \E k \in 1 .. 4 : Bit(result, k - 1)

----------------------------------------------------------------------------
(* SpecBus: the register interface.  From power-on, a bounded number of    *)
(* writes to mapped and to unmapped addresses, status reads and ticks, in  *)
(* any order, while another interrupt source may raise the shared line.    *)

MaxBusWrites == 3
MaxBusReads == 2
MaxBusTicks == 1

\* writes that give the Apu a state to lose: two length loads, the DMC
\* interrupt enable, the inhibit flag cleared, the 5-step mode
MappedBusWrites ==
    {<<16387, 8>>, <<16399, 27>>, <<16400, 128>>, <<16407, 64>>, <<16407, 128>>}

\* addresses apu_write_reg has no arm for: 0x4009, 0x400D, 0x4014, 0x4016,
\* 0x3FFF, 0x4018, 0x0015 and 0x8017
UnmappedAddrs == {16393, 16397, 16404, 16406, 16383, 16408, 21, 32791}

BusValues == {0, 64, 128, 255}

BusWrites == MappedBusWrites \cup (UnmappedAddrs \X BusValues)

BusWrite == nwrites < MaxBusWrites /\ \E w \in BusWrites : DoWrite(w[1], w[2])

BusRead == nreads < MaxBusReads /\ DoRead

BusTick == nticks < MaxBusTicks /\ DoTick

NextBus == BusWrite \/ BusRead \/ BusTick \/ ExternalIrq

SpecBus == PowerOn /\ [][NextBus]_vars

----------------------------------------------------------------------------
(* C11-C12: status reads and unmapped writes (under SpecBus).              *)

\* C11: read_status leaves the interrupt-inhibit flag false and the shared
\* interrupt signal false and changes no other field of the Apu; of two reads
\* with nothing in between, the second returns the first one's value with bit 6
\* cleared.
C11_ReadClearsInhibitAndIrq ==
    /\ []((op.name = "read" /\ ~panicked) =>
            /\ ~apu.frame_counter.irq_inhibit
            /\ ~irq_signal
            /\ [apu EXCEPT !.frame_counter.irq_inhibit = before.frame_counter.irq_inhibit]
                   = before)
    /\ [][(op.name = "read" /\ op'.name = "read") =>
            result' = result - (IF Bit(result, 6) THEN 64 ELSE 0)]_vars

\* a second read of an Apu with a running channel, the DMC flag set and the
\* counters advanced: bit 6 has gone, the other bits are reported again
C11_Witness ==
    /\ op.name = "read" /\ nreads = 2
    /\ before = apu /\ apu.cycles > 0
    /\ Bit(result, 0) /\ Bit(result, 7) /\ ~Bit(result, 6)

\* C12: a write of any value to an address outside the mapped set (0x4009,
\* 0x400D, 0x4014, 0x4016, below 0x4000, above 0x4017) returns without an error
\* and leaves every field of the Apu and the shared interrupt signal as they were.
C12_UnmappedWriteIgnored ==
    (/\ op.name = "write"
     /\ \/ op.addr \in {16393, 16397, 16404, 16406}
        \/ op.addr < 16384
        \/ op.addr > 16407)
    => (~panicked /\ apu = before /\ irq_signal = irq_before)

\* a write below 0x4000 while an interrupt is pending and a channel is running
C12_Witness ==
    /\ op.name = "write" /\ op.addr < 16384 /\ ~panicked
    /\ irq_signal /\ irq_before
    /\ apu = before /\ apu.pulse_1.length_counter.counter > 0

----------------------------------------------------------------------------
(* SpecPulse: register programs.  From power-on one of a few programs is   *)
(* written, write by write; at any point the writing may stop and the APU  *)
(* be ticked up to the first mixer sample and beyond.                      *)

MaxPulseTicks == 120

\* the half-frame clock a write of 0x80 to 0x4017 makes
HF == <<16407, 128>>

\* both pulses at constant volume 7, duty 3, timer 0x700, length 254
Loud == << <<16384, 215>>, <<16387, 15>>, <<16388, 215>>, <<16391, 15>> >>

\* noise volume, DMC level and triangle length set, then pulse 1 as in Loud
LoudOverTnd ==
    << <<16396, 31>>, <<16401, 127>>, <<16395, 8>>, <<16384, 215>>, <<16387, 15>> >>

\* both sweeps enabled, shift 0, adding: the period grows by the timer (0x700)
\* on the second and on the third half-frame clock
SweepUp ==
    << <<16384, 215>>, <<16385, 128>>, <<16389, 128>>, <<16387, 15>>, <<16391, 15>>,
       HF, HF, HF >>

\* both sweeps enabled, shift 0, negating, with change amounts 0x700, 1 and 0
SweepDown == << <<16385, 136>>, <<16389, 136>>, <<16387, 15>>, <<16391, 15>>, HF, HF >>

SweepDownOne == << <<16385, 136>>, <<16389, 136>>, <<16386, 1>>, <<16390, 1>>, HF, HF >>

SweepDownZero == << <<16385, 136>>, <<16389, 136>>, HF, HF >>

\* pulse 1 with the envelope selected (period 7), duty 3, then an envelope clock
Decay == << <<16384, 199>>, <<16387, 15>>, HF >>

\* the same with the loop flag, which also halts the length counter
DecayLoop == << <<16387, 15>>, <<16384, 231>>, HF >>

Programs == {Loud, LoudOverTnd, SweepUp, SweepDown, SweepDownOne, SweepDownZero, Decay, DecayLoop}

\* the Apu after the writes ws, none of which aborted
RECURSIVE AfterWrites(_, _)
AfterWrites(a, ws) ==
    IF ws = <<>> THEN a
    ELSE AfterWrites(apu_write_reg(a, FALSE, Head(ws)[1], Head(ws)[2]).apu, Tail(ws))

\* the next write of a program whose earlier writes have all been made
ProgWrite ==
    \E prog \in Programs :
        /\ nticks = 0
        /\ nwrites < Len(prog)
        /\ apu = AfterWrites(Apu_new, SubSeq(prog, 1, nwrites))
        /\ DoWrite(prog[nwrites + 1][1], prog[nwrites + 1][2])

PulseTick == nticks < MaxPulseTicks /\ DoTick

NextPulse == ProgWrite \/ PulseTick

SpecPulse == PowerOn /\ [][NextPulse]_vars

----------------------------------------------------------------------------
(* C13-C14, C17-C18: pulse output, sweep adders, mixer (under SpecPulse).  *)

\* the two pulse channels of an Apu
Pulses(a) == {a.pulse_1, a.pulse_2}

\* the four conditions Pulse::output tests
Gated(p) ==
    /\ DUTY_SEQUENCE[DutyIndex(p) + 1]
    /\ p.length_counter.counter > 0
    /\ p.sweep.timer >= 8
    /\ p.sweep.period < 2048

\* C13: a pulse channel's output is 0 whenever its duty-table bit is inactive,
\* its length counter is 0, its sweep timer is below 8 or its sweep period is
\* 0x800 or more; a sweep that adds to the period stores the sum unwrapped, so a
\* period grown past 0x7FF silences the channel.
C13_PulseGating ==
    /\ \A p \in Pulses(apu) : ~Gated(p) => Pulse_output(p) = 0
    /\ (IsWrite(16407) /\ Bit(op.val, 7)) =>
        \A n \in {"pulse_1", "pulse_2"} :
            (Sweep_adjusts(before[n].sweep) /\ ~before[n].sweep.negate) =>
                apu[n].sweep.period = before[n].sweep.period + Sweep_change(before[n].sweep)

\* pulse 1 at constant volume 7 with every other gate open, silenced by a sweep
\* period the third half-frame clock has brought to 0xE00
C13_Witness ==
    /\ IsWrite(16407)
    /\ before.pulse_1.sweep.period < 2048 /\ apu.pulse_1.sweep.period >= 2048
    /\ DUTY_SEQUENCE[DutyIndex(apu.pulse_1) + 1]
    /\ apu.pulse_1.length_counter.counter > 0
    /\ apu.pulse_1.sweep.timer >= 8
    /\ apu.pulse_1.envelope.constant_volume /\ apu.pulse_1.envelope.period > 0
    /\ Pulse_output(before.pulse_1) > 0
    /\ Pulse_output(apu.pulse_1) = 0

\* C14 (as claimed): with the four gating conditions true, a pulse channel's
\* output is the envelope's period when the constant-volume flag is set and the
\* envelope's decay counter otherwise.
C14_OutputIsVolumeOrDecay ==
    \A p \in Pulses(apu) :
        Gated(p) =>
            Pulse_output(p) = (IF p.envelope.constant_volume
                               THEN p.envelope.period
                               ELSE p.envelope.decay_counter)

\* C17 (as claimed): when both sweeps are in the same state, enabled and with
\* the divider about to expire, one clock of each returns and leaves pulse 1's
\* period equal to pulse 2's plus 1 (modulo 2^16) if negate is set, and equal to
\* pulse 2's if it is clear.
C17_AddersDifferByOne ==
    (/\ op.name = "write" /\ op.addr = 16407 /\ Bit(op.val, 7)
     /\ before.pulse_1.sweep = before.pulse_2.sweep
     /\ Sweep_adjusts(before.pulse_1.sweep))
    => /\ ~panicked
       /\ apu.pulse_1.sweep.period =
            (IF before.pulse_1.sweep.negate
             THEN U16(apu.pulse_2.sweep.period + 1)
             ELSE apu.pulse_2.sweep.period)

\* an Apu with the registers of the triangle, noise and DMC channels as at power-on
WithoutTnd(a) == [a EXCEPT !.triangle = Triangle_new, !.noise = Noise_new, !.dmc = Dmc_new]

\* C18: every mixer sample is looked up at the sum of the two pulse outputs and
\* at index 0 of the tnd table; the triangle, noise and DMC state contribute
\* nothing, so an Apu and the same Apu with other triangle, noise and DMC
\* registers give the same sample.
C18_SampleFromPulsesOnly ==
    /\ mixer(apu) = mixer(WithoutTnd(apu))
    /\ sample.tnd = 0
    /\ (IsTick /\ Count(calls, "apu", "mixer") = 1) =>
        /\ sample.valid
        /\ sample.pulse = Pulse_output(apu.pulse_1) + Pulse_output(apu.pulse_2)
        /\ sample = [valid |-> TRUE] @@ mixer(WithoutTnd(apu))

\* a sample of a sounding pulse channel taken while the noise volume, the DMC
\* level and the triangle's length counter are all set
C18_Witness ==
    /\ IsTick /\ Count(calls, "apu", "mixer") = 1
    /\ sample.pulse > 0
    /\ apu.noise.volume > 0 /\ apu.dmc.direct_load > 0
    /\ apu.triangle.length_counter.counter > 0

----------------------------------------------------------------------------
(* SpecLoad: length loads.  The four length counters are brought into one  *)
(* of a few states by register writes from power-on; then every load index *)
(* is written to every one of the four load registers.                     *)

MaxLoads == 1

\* all four counters loaded with 254
Running == << <<16387, 8>>, <<16391, 8>>, <<16395, 8>>, <<16399, 8>> >>

\* the writes made before the loads: none; Running; Running and a half-frame
\* clock; Running and the four halt flags; Running and all channels disabled;
\* Running and pulse 2 and noise disabled
LoadSetups ==
    {<<>>,
     Running,
     Running \o <<HF>>,
     Running \o << <<16384, 32>>, <<16388, 32>>, <<16392, 128>>, <<16396, 32>> >>,
     Running \o << <<16405, 0>> >>,
     Running \o << <<16405, 5>> >>}

\* 0x4003, 0x4007, 0x400B, 0x400F
LoadAddrs == {16387, 16391, 16395, 16399}

\* every index in the top five bits, over low bits 000 and 111
LoadValues == {8 * i + low : i \in 0 .. 31, low \in {0, 7}}

InitLoad ==
    \E s \in LoadSetups :
        /\ apu = AfterWrites(Apu_new, s)
        /\ before = AfterWrites(Apu_new, s)
        /\ irq_signal = FALSE
        /\ panicked = FALSE
        /\ op = [name |-> "new", addr |-> 0, val |-> 0]
        /\ irq_before = FALSE
        /\ calls = <<>>
        /\ result = 0
        /\ sample = NoSample
        /\ seq = 0
        /\ timers = "none"
        /\ now = 0
        /\ nticks = 0
        /\ nwrites = 0
        /\ nreads = 0

LoadWrite ==
    /\ nwrites < MaxLoads
    /\ \E addr \in LoadAddrs, val \in LoadValues : DoWrite(addr, val)

NextLoad == LoadWrite

SpecLoad == InitLoad /\ [][NextLoad]_vars

----------------------------------------------------------------------------
(* C15: LengthCounter::load (under SpecLoad).                              *)

\* C15: a write of v to 0x4003, 0x4007, 0x400B or 0x400F sets the channel's
\* length counter to entry v >> 3 of the table 10, 254, 20, 2, 40, 4, 80, 6, 160,
\* 8, 60, 10, 14, 12, 26, 14, 12, 16, 24, 18, 48, 20, 96, 22, 192, 24, 72, 26, 16,
\* 28, 32, 30 if the counter's enabled flag is true at the call, whatever the
\* counter was, and leaves the counter as it was if the flag is false; the flag
\* and the other counters are not changed.
C15_LengthLoad ==
    LET table == << 10, 254, 20, 2, 40, 4, 80, 6, 160, 8, 60, 10, 14, 12, 26, 14,
                    12, 16, 24, 18, 48, 20, 96, 22, 192, 24, 72, 26, 16, 28, 32, 30 >>
        ch == CASE op.addr = 16387 -> 1 [] op.addr = 16391 -> 2
                [] op.addr = 16395 -> 3 [] op.addr = 16399 -> 4
        old == Lengths(before)
        new == Lengths(apu)
    IN  (op.name = "write" /\ op.addr \in {16387, 16391, 16395, 16399}) =>
            /\ ~panicked
            /\ new[ch].counter = (IF old[ch].enabled
                                  THEN table[(op.val \div 8) + 1]
                                  ELSE old[ch].counter)
            /\ new[ch].enabled = old[ch].enabled
            /\ \A k \in 1 .. 4 : k # ch => new[k] = old[k]

\* the last index written to the noise channel's load register over a running
\* counter
C15_Witness ==
    /\ IsWrite(16399) /\ op.val = 255
    /\ before.noise.length_counter = [enabled |-> TRUE, counter |-> 253]
    /\ apu.noise.length_counter = [enabled |-> TRUE, counter |-> 30]

----------------------------------------------------------------------------
(* SpecEnvelope: one envelope decaying.  No register write sets the start  *)
(* flag, so the decay counter is brought to 15 through the loop flag: from *)
(* power-on, 0x4000 is written with the loop flag and a period P, one      *)
(* envelope clock loads the divider with P and the decay counter with 15,  *)
(* and 0x4000 is written again with the loop flag clear.  From there the   *)
(* envelope is clocked by writes of 0x80 to 0x4017, one clock each.        *)

MaxEnvClocks == 245

EnvSetup ==
    \/ /\ nwrites = 0
       /\ \E P \in 0 .. 15 : DoWrite(16384, 32 + P)
    \/ /\ nwrites = 1
       /\ DoWrite(HF[1], HF[2])
    \/ /\ nwrites = 2
       /\ DoWrite(16384, apu.pulse_1.envelope.period)

EnvClock ==
    /\ nwrites >= 3
    /\ nwrites < 3 + MaxEnvClocks
    /\ DoWrite(HF[1], HF[2])

NextEnvelope == EnvSetup \/ EnvClock

SpecEnvelope == PowerOn /\ [][NextEnvelope]_vars

----------------------------------------------------------------------------
(* C16: Envelope::clock (under SpecEnvelope).                              *)

\* C16: for every period P in 0..15, an envelope with the loop and start flags
\* clear that starts at decay level 15 with its divider at P has a decay level
\* above 0 after fewer than (P + 1) * 15 clocks and decay level 0 after
\* (P + 1) * 15 clocks and after every later clock.
C16_EnvelopeDecay ==
    nwrites >= 3 =>
        LET e == apu.pulse_1.envelope
            n == nwrites - 3
        IN  /\ ~panicked
            /\ ~e.loop /\ ~e.start
            /\ n = 0 => (e.decay_counter = 15 /\ e.step = e.period)
            /\ e.decay_counter \in 0 .. 15
            /\ (e.decay_counter = 0) <=> (n >= (e.period + 1) * 15)

\* the 240th clock of the envelope with period 15 takes the decay level from 1
\* to 0
C16_Witness ==
    /\ IsWrite(16407) /\ nwrites = 3 + 240
    /\ apu.pulse_1.envelope.period = 15
    /\ before.pulse_1.envelope.decay_counter = 1
    /\ apu.pulse_1.envelope.decay_counter = 0

----------------------------------------------------------------------------
(* SpecIrq: the interrupt line over a whole frame sequence.  From power-on *)
(* a write to 0x4017 may select the mode and clear the inhibit flag; the   *)
(* APU is then ticked through the 4-step placeholder steps and past the    *)
(* 5-step wrap point, while another source may raise the line at any time. *)

MaxIrqRun == 37283

\* 0x4017 <- 0x00, 0x40, 0x80, 0xC0
IrqMode ==
    /\ now = 0 /\ nwrites = 0
    /\ \E val \in {0, 64, 128, 192} : DoWrite(16407, val)

IrqTick == now < MaxIrqRun /\ DoTick

NextIrq == IrqMode \/ IrqTick \/ ExternalIrq

SpecIrq == PowerOn /\ [][NextIrq]_vars

----------------------------------------------------------------------------
(* C19: ticks and the interrupt line (under SpecIrq).                      *)

\* C19: a tick leaves the shared interrupt signal as it was, at the steps 29828,
\* 29829 and 29830 of the 4-step sequence and at every other step, in either
\* mode, with the inhibit flag set or clear; and no operation of the APU returns
\* with the signal true unless it was true when the operation was called.
C19_TickKeepsIrq ==
    /\ op.name = "tick" => irq_signal = irq_before
    /\ (op.name \in {"tick", "write", "read"} /\ irq_signal) => irq_before

\* the tick to step 29828 of the 4-step sequence with the inhibit flag clear and
\* no interrupt pending: the signal stays false
C19_Witness ==
    /\ IsTick /\ seq = 29828
    /\ ~apu.frame_counter.mode /\ ~apu.frame_counter.irq_inhibit
    /\ ~irq_before /\ ~irq_signal

----------------------------------------------------------------------------
(* SpecTone: the three writes 0x4000 <- 0x87, 0x4002 <- 0x00, 0x4003 <- 0x08 *)
(* from power-on, followed by ticks up to the first half-frame clock.      *)

MaxToneTicks == 14913

ToneWrites == << <<16384, 135>>, <<16386, 0>>, <<16387, 8>> >>

ToneWrite ==
    /\ nticks = 0
    /\ nwrites < Len(ToneWrites)
    /\ DoWrite(ToneWrites[nwrites + 1][1], ToneWrites[nwrites + 1][2])

ToneTick ==
    /\ nwrites = Len(ToneWrites)
    /\ nticks < MaxToneTicks
    /\ DoTick

NextTone == ToneWrite \/ ToneTick

SpecTone == PowerOn /\ [][NextTone]_vars

----------------------------------------------------------------------------
(* C20: a pulse channel end to end (under SpecTone).                       *)

----------------------------------------------------------------------------
(* SpecRegs: the whole register file.  A behaviour starts at a point of an *)
(* undisturbed run, or at power-on after one of a few register programs;   *)
(* then registers are written, any address from 0x4000 to 0x4017 with      *)
(* values that clear, set and mix the bits of every field, and the APU is  *)
(* ticked and its status read.                                             *)

MaxRegWrites == 1
MaxRegTicks == 1
MaxRegReads == 1

\* both pulses at constant volume 15, duty 3, pulse 1 loaded with timer 0x700
LoudFull == << <<16384, 223>>, <<16387, 15>>, <<16388, 223>> >>

\* pulse 1 with the envelope selected, period 15, and its divider loaded
DecayFull == << <<16384, 207>>, <<16387, 15>>, HF >>

\* the Apu a behaviour starts with, [at, writes]: the writes made at the point
RegStarts ==
    {[at |-> pt, writes |-> <<>>] : pt \in StartPoints}
        \cup {[at |-> [now |-> 0, run |-> "4"], writes |-> ws] : ws \in {LoudFull, DecayFull, SweepUp}}

\* 0x4000 .. 0x4017, the unmapped 0x4009, 0x400D, 0x4014 and 0x4016 among them
RegAddrs == 16384 .. 16407

\* every bit clear, the low nibble, bit 7 alone, the high nibble, every bit set
RegValues == {0, 15, 128, 240, 255}

InitRegs ==
    \E s \in RegStarts :
        /\ apu = AfterWrites(ApuAt(s.at), s.writes)
        /\ before = AfterWrites(ApuAt(s.at), s.writes)
        /\ irq_signal = FALSE
        /\ panicked = FALSE
        /\ op = [name |-> "new", addr |-> 0, val |-> 0]
        /\ irq_before = FALSE
        /\ calls = <<>>
        /\ result = 0
        /\ sample = SampleAt(s.at)
        /\ seq = 0
        /\ timers = TimersAt(s.at)
        /\ now = s.at.now
        /\ nticks = 0
        /\ nwrites = 0
        /\ nreads = 0

RegWrite ==
    /\ nwrites < MaxRegWrites
    /\ nticks = 0 /\ nreads = 0
    /\ \E addr \in RegAddrs, val \in RegValues : DoWrite(addr, val)

RegTick == nticks < MaxRegTicks /\ DoTick

RegRead == nreads < MaxRegReads /\ DoRead

NextRegs == RegWrite \/ RegTick \/ RegRead

SpecRegs == InitRegs /\ [][NextRegs]_vars

----------------------------------------------------------------------------
(* C21: table lookups (under SpecRegs).                                    *)

\* C21: in every reachable state every table lookup is in range: the duty-table
\* index (duty preset | duty phase) is in 0..31, the index of every length load
\* is in 0..31, each pulse output is at most 15 so that the pulse mixer index is
\* in 0..30, and the tnd mixer index is in 0..202.
C21_LookupsInRange ==
    /\ \A p \in Pulses(apu) :
        /\ p.duty_seq \in {0, 8, 16, 24}
        /\ p.duty_cycle \in 0 .. 7
        /\ DutyIndex(p) \in 0 .. 31
        /\ Pulse_output(p) \in 0 .. 15
    /\ mixer(apu).pulse \in 0 .. 30
    /\ mixer(apu).tnd \in 0 .. 202
    /\ sample.pulse \in 0 .. 30 /\ sample.tnd \in 0 .. 202
    /\ (op.name = "write" /\ op.addr \in LoadAddrs) => Bits(op.val, 3, 5) \in 0 .. 31

\* the load of the last table entry that opens pulse 2 while both pulses are at
\* volume 15: the pulse mixer index is 30
C21_Witness ==
    /\ IsWrite(16391) /\ Bits(op.val, 3, 5) = 31
    /\ apu.pulse_2.length_counter.counter = 30
    /\ Pulse_output(apu.pulse_1) = 15 /\ Pulse_output(apu.pulse_2) = 15
    /\ mixer(apu).pulse = 30

----------------------------------------------------------------------------
(* C22: the u16 arithmetic of Sweep::clock (under SpecPulse).              *)

\* C22 (as claimed): no sequence of register writes and ticks makes an operation
\* abort on arithmetic: no operation panics, and every 16-bit computation of the
\* sweep clocks a write to 0x4017 makes stays within 0..65535.
C22_NoArithmeticAbort ==
    /\ ~panicked
    /\ (op.name = "write" /\ op.addr = 16407) => ~ExecOverflows(before, calls)

----------------------------------------------------------------------------
(* C23: writes to 0x4017 and the sequencer's counter (under Spec).         *)

\* C23 (as claimed): a write to 0x4017, with bit 7 set or clear, resets the
\* frame sequence: when the write returns the sequencer's counter is 0, wherever
\* in the sequence the write was made.
C23_ModeWriteResetsCounter ==
    IsWrite(16407) => apu.cycles = 0

----------------------------------------------------------------------------
(* SpecSweep: the sweep dividers.  Register writes from power-on bring     *)
(* both sweeps into one of a few states (divider at 0, at 1 and about to   *)
(* recompute the period, or higher; enabled or not); then one sweep        *)
(* register is written with any value and the sweeps are clocked by writes *)
(* of 0x80 to 0x4017.                                                      *)

MaxSweepClocks == 3

\* both timers at 0x700
Timers == << <<16387, 15>>, <<16391, 15>> >>

\* the writes made before the sweep write: none; sweeps disabled with period 7
\* and the divider at 8; sweeps enabled and adding with period 0 and the divider
\* at 1, reload clear; the same with the reload still pending; sweeps enabled
\* with period 2 and the divider at 2
SweepSetups ==
    {<<>>,
     << <<16385, 112>>, <<16389, 112>>, HF >>,
     Timers \o << <<16385, 128>>, <<16389, 128>>, HF >>,
     Timers \o << <<16385, 128>>, <<16389, 128>> >>,
     Timers \o << <<16385, 161>>, <<16389, 161>>, HF, HF >>}

\* 0x4001, 0x4005
SweepAddr(n) == IF n = "pulse_1" THEN 16385 ELSE 16389

Adder(n) == IF n = "pulse_1" THEN PULSE_1_ADDER ELSE PULSE_2_ADDER

InitSweep ==
    \E s \in SweepSetups :
        /\ apu = AfterWrites(Apu_new, s)
        /\ before = AfterWrites(Apu_new, s)
        /\ irq_signal = FALSE
        /\ panicked = FALSE
        /\ op = [name |-> "new", addr |-> 0, val |-> 0]
        /\ irq_before = FALSE
        /\ calls = <<>>
        /\ result = 0
        /\ sample = NoSample
        /\ seq = 0
        /\ timers = "none"
        /\ now = 0
        /\ nticks = 0
        /\ nwrites = 0
        /\ nreads = 0

SweepWrite ==
    /\ nwrites = 0
    /\ \E n \in {"pulse_1", "pulse_2"}, val \in 0 .. 255 : DoWrite(SweepAddr(n), val)

SweepClock ==
    /\ nwrites < 1 + MaxSweepClocks
    /\ DoWrite(HF[1], HF[2])

NextSweep == SweepWrite \/ SweepClock

SpecSweep == InitSweep /\ [][NextSweep]_vars

----------------------------------------------------------------------------
(* C24: the reload flag (under SpecSweep).                                 *)

\* C24: a write of any value to a sweep register (0x4001, 0x4005) sets the
\* sweep's reload flag; the next Sweep::clock sets the divider to period + 1,
\* clears the flag and does not recompute the period, whatever the divider was;
\* and a clear flag stays clear through every operation but a write to the
\* sweep's register.
C24_SweepReload ==
    \A n \in {"pulse_1", "pulse_2"} :
        LET s == apu[n].sweep
            old == before[n].sweep
            reloaded(x) == [x EXCEPT !.counter = x.period + 1, !.reload = FALSE]
        IN  /\ IsWrite(SweepAddr(n)) =>
                s = [old EXCEPT !.enabled = Bit(op.val, 7),
                                !.period = (op.val \div 16) % 8,
                                !.negate = Bit(op.val, 3),
                                !.shift = op.val % 8,
                                !.reload = TRUE]
            /\ s.reload =>
                (Sweep_clock(s, Adder(n)) = reloaded(s) /\ ~Sweep_overflows(s, Adder(n)))
            /\ (IsWrite(16407) /\ Bit(op.val, 7) /\ old.reload) => s = reloaded(old)
            /\ (~old.reload /\ ~(op.name = "write" /\ op.addr = SweepAddr(n))) => ~s.reload

\* the clock that follows a write to the register of an enabled sweep whose
\* divider was at 1: without the write it would have recomputed the period from
\* the timer; it reloads the divider and leaves the period alone
C24_Witness ==
    /\ IsWrite(16407) /\ nwrites = 2
    /\ before.pulse_1.sweep.reload
    /\ before.pulse_1.sweep.counter = 1
    /\ before.pulse_1.sweep.enabled
    /\ Sweep_change(before.pulse_1.sweep) > 0
    /\ apu.pulse_1.sweep.period = before.pulse_1.sweep.period
    /\ apu.pulse_1.sweep.counter = apu.pulse_1.sweep.period + 1
    /\ ~apu.pulse_1.sweep.reload
    /\ apu.pulse_2.sweep.period # before.pulse_2.sweep.period

----------------------------------------------------------------------------
(* SpecLength: length counters running out.  At a point of an undisturbed  *)
(* run the four length counters are loaded with 2, the triangle's is       *)
(* halted, and a write of 0x80 to 0x4017 clocks the other three down to 1; *)
(* a further write may select the 4-step sequence.  From there the APU is  *)
(* only ticked.  LiveLength adds what the console's cycle loop guarantees: *)
(* apu_tick is called on every CPU cycle, so ticks do not stop.            *)

MaxLengthTicks == 7460

\* 0x4003, 0x4007, 0x400F, 0x400B <- 0x18 (table entry 3: length 2), then
\* 0x4008 <- 0x80 (triangle halt: enabled flag false), then the half-frame clock
\* of 0x4017 <- 0x80, which also selects the 5-step sequence
LengthSetup5 ==
    << <<16387, 24>>, <<16391, 24>>, <<16399, 24>>, <<16395, 24>>, <<16392, 128>>, HF >>

\* the same, followed by 0x4017 <- 0x00: the 4-step sequence
LengthSetup4 == LengthSetup5 \o << <<16407, 0>> >>

\* [at, writes]: the point of the run and the writes made there
LengthStarts ==
    {[at |-> [now |-> 14911, run |-> "4"], writes |-> LengthSetup5],
     [at |-> [now |-> 29828, run |-> "4"], writes |-> LengthSetup4],
     [at |-> [now |-> 29828, run |-> "5"], writes |-> LengthSetup5]}

InitLength ==
    \E s \in LengthStarts :
        /\ apu = AfterWrites(ApuAt(s.at), s.writes)
        /\ before = AfterWrites(ApuAt(s.at), s.writes)
        /\ irq_signal = FALSE
        /\ panicked = FALSE
        /\ op = [name |-> "new", addr |-> 0, val |-> 0]
        /\ irq_before = FALSE
        /\ calls = <<>>
        /\ result = 0
        /\ sample = SampleAt(s.at)
        /\ seq = 0
        /\ timers = TimersAt(s.at)
        /\ now = s.at.now
        /\ nticks = 0
        /\ nwrites = 0
        /\ nreads = 0

LengthTick == nticks < MaxLengthTicks /\ DoTick

NextLength == LengthTick

SpecLength == InitLength /\ [][NextLength]_vars

LiveLength == SpecLength /\ WF_vars(LengthTick)

----------------------------------------------------------------------------
(* C25: LengthCounter::clock under ticks (under LiveLength).               *)

\* the half-frame events of a mode: the steps 14913 and 29829 of the 4-step
\* sequence, 14913 and 37281 of the 5-step sequence
HalfFrameEvent(mode, step) ==
    IF mode THEN step \in {14913, 37281} ELSE step \in {14913, 29829}

\* every enabled length counter of the Apu has run out
RunOut(a) == \A k \in 1 .. 4 : Lengths(a)[k].enabled => Lengths(a)[k].counter = 0

----------------------------------------------------------------------------
(* C26: the counter and the wrap point (under SpecSeq).                    *)

\* C26 (as claimed): after every tick, whatever writes to 0x4017 changed the
\* mode at whatever point of the sequence, the sequencer's counter is below the
\* wrap point of the current mode: below 29830 in 4-step mode, below 37282 in
\* 5-step mode.
C26_CounterBelowWrap ==
    IsTick => apu.cycles < (IF apu.frame_counter.mode THEN 37282 ELSE 29830)

----------------------------------------------------------------------------
(* SpecDisable: channels switched off.  From power-on the four length      *)
(* counters are loaded with 254 and a write of 0x00 to 0x4015 disables     *)
(* every channel; then the channels' own registers, 0x4000 to 0x400F, are  *)
(* written and the APU is ticked, with no further write to 0x4015.         *)

MaxChannelWrites == 2
MaxDisableTicks == 1

DisableSetup == Running \o << <<16405, 0>> >>

\* 0x4000 .. 0x400F
ChannelAddrs == 16384 .. 16399

\* every bit clear, every bit set
ChannelValues == {0, 255}

DisableWrite ==
    /\ nwrites < Len(DisableSetup)
    /\ DoWrite(DisableSetup[nwrites + 1][1], DisableSetup[nwrites + 1][2])

ChannelWrite ==
    /\ nwrites >= Len(DisableSetup)
    /\ nwrites < Len(DisableSetup) + MaxChannelWrites
    /\ \E addr \in ChannelAddrs, val \in ChannelValues : DoWrite(addr, val)

DisableTick ==
    /\ nwrites >= Len(DisableSetup)
    /\ nticks < MaxDisableTicks
    /\ DoTick

NextDisable == DisableWrite \/ ChannelWrite \/ DisableTick

SpecDisable == PowerOn /\ [][NextDisable]_vars

----------------------------------------------------------------------------
(* C27: disabled channels (under SpecDisable).                             *)

\* C27 (as claimed): once a write to 0x4015 has cleared a channel's enable bit,
\* the channel's length counter stays 0 and its status bit reads 0 through every
\* later tick and every later write to the channel's own registers, as long as
\* 0x4015 is not written again.
C27_DisabledStaysSilent ==
    nwrites >= Len(DisableSetup) =>
        \A k \in 1 .. 4 :
            Lengths(apu)[k].counter = 0 /\ ~Bit(StatusByte(apu), k - 1)

====
